---- MODULE Spec2Model ----
(***************************************************************************)
(* Lineage dependency graph engine: the graph model (lineage/models.py),   *)
(* BFS traversal (lineage/traversal.py), impact analysis                   *)
(* (lineage/impact.py) and the snapshot history manager                    *)
(* (lineage/history.py).                                                   *)
(***************************************************************************)
EXTENDS Integers, Sequences, FiniteSets, TLC

\* the graph engine: the graph under construction, the graph before the last
\* call, the last call with its arguments, and the results of the queries
VARIABLES graph, prev, last, restored, subgraph, expanded, impact

\* the history manager: the index file, the payload files, the position of the
\* capture_snapshot call in progress with its locals, the wall clock, and the
\* number of captures started
VARIABLES index, files, pc, loc, now, captures

\* the results of the calls that only read: the cycles reported by the impact
\* analyzer, and the outcome of the last load_snapshot call
VARIABLES cycles, loaded

\* the column lineage extractor: its _table_aliases, the parsed statement and
\* target_table of the last extract_column_lineage call, and the
\* ColumnLineageGraph that call returned
VARIABLES table_aliases, stmt, lineage

\* the cross-database merge: the operations still to apply in each of two
\* orders, and the combined graph of each order
VARIABLES todo, combined

\* the storage directory swept by clean_old_snapshots: its graph_*.json files
\* with their modification days, the current day, and the last sweep
VARIABLES storage, today, cleaned

gvars == <<graph, prev, last, restored, subgraph, expanded, impact>>

hvars == <<index, files, pc, loc, now, captures>>

cvars == <<table_aliases, stmt, lineage>>

yvars == <<todo, combined, storage, today, cleaned>>

xvars == <<cycles, loaded, cvars, yvars>>

vars == <<gvars, hvars, xvars>>

(***************************************************************************)
(* Bounds of the model.                                                    *)
(***************************************************************************)
MaxEdges == 2
MaxTravEdges == 2
MaxDepth == 1
MaxImpactDepth == 2
MaxCaptures == 3

(***************************************************************************)
(* Python values.                                                          *)
(***************************************************************************)
None == [some |-> FALSE]

Some(v) == [some |-> TRUE, val |-> v]

EmptyDict == [x \in {} |-> 0]

\* dict.update(): keys of e override keys of d
Update(d, e) == [k \in DOMAIN d \cup DOMAIN e |-> IF k \in DOMAIN e THEN e[k] ELSE d[k]]

\* d[k] = v
Put(d, k, v) == [x \in DOMAIN d \cup {k} |-> IF x = k THEN v ELSE d[x]]

\* d.get(k, default)
Get(d, k, default) == IF k \in DOMAIN d THEN d[k] ELSE default

\* iteration over a dict or set, in some fixed order
RECURSIVE SetToSeq(_)
SetToSeq(S) ==
  IF S = {} THEN <<>>
  ELSE LET x == CHOOSE y \in S : TRUE IN <<x>> \o SetToSeq(S \ {x})

(***************************************************************************)
(* lineage/models.py                                                       *)
(***************************************************************************)
NodeType == {"DATASET", "TASK"}

EdgeType == {"DERIVES_FROM", "PRODUCES", "CONSUMES"}

\* NodeType.value / EdgeType.value: the strings written to the wire format
EnumValue(m) ==
  CASE m = "DATASET" -> "dataset"
    [] m = "TASK" -> "task"
    [] m = "DERIVES_FROM" -> "derives_from"
    [] m = "PRODUCES" -> "produces"
    [] m = "CONSUMES" -> "consumes"
    [] OTHER -> m

\* NodeType(value): the member with that value; ValueError is caught and the
\* raw string kept
ParseNodeType(v) ==
  IF \E m \in NodeType : EnumValue(m) = v
  THEN CHOOSE m \in NodeType : EnumValue(m) = v
  ELSE v

ParseEdgeType(v) ==
  IF \E m \in EdgeType : EnumValue(m) = v
  THEN CHOOSE m \in EdgeType : EnumValue(m) = v
  ELSE v

Node(key, node_type, attributes) ==
  [key |-> key, node_type |-> node_type, attributes |-> attributes]

Edge(src, dst, edge_type, evidence) ==
  [src |-> src, dst |-> dst, edge_type |-> edge_type, evidence |-> evidence]

\* Graph.__init__
NewGraph ==
  [nodes |-> EmptyDict, out_edges |-> EmptyDict, in_edges |-> EmptyDict,
   edge_metadata |-> EmptyDict]

\* add_node with the stored node replaced by the new one
add_node_replacing(g, node) ==
  [g EXCEPT !.nodes = Put(@, node.key, node),
            !.out_edges = Put(@, node.key, Get(g.out_edges, node.key, EmptyDict)),
            !.in_edges = Put(@, node.key, Get(g.in_edges, node.key, EmptyDict))]

\* Graph.add_node
add_node(g, node) ==
  IF node.key \notin DOMAIN g.nodes
  THEN [g EXCEPT !.nodes = Put(@, node.key, node),
                 !.out_edges = Put(@, node.key, EmptyDict),
                 !.in_edges = Put(@, node.key, EmptyDict)]
  ELSE [g EXCEPT !.nodes[node.key].attributes = Update(@, node.attributes)]

\* Graph.set_node_type
set_node_type(g, key, node_type) ==
  IF key \in DOMAIN g.nodes
  THEN [g EXCEPT !.nodes[key].node_type = node_type]
  ELSE add_node(g, Node(key, node_type, EmptyDict))

\* adj.setdefault(a, {}).setdefault(edge_type, set()).add(b)
AdjAdd(adj, a, edge_type, b) ==
  LET inner == Get(adj, a, EmptyDict)
      members == Get(inner, edge_type, {})
  IN Put(adj, a, Put(inner, edge_type, members \cup {b}))

\* add_edge that creates the source but not the target when it is absent
add_edge_source_only(g, edge) ==
  LET g1 == IF edge.src \notin DOMAIN g.nodes
            THEN add_node(g, Node(edge.src, "DATASET", EmptyDict)) ELSE g
  IN [g1 EXCEPT
        !.out_edges = AdjAdd(@, edge.src, edge.edge_type, edge.dst),
        !.in_edges = AdjAdd(@, edge.dst, edge.edge_type, edge.src),
        !.edge_metadata = Put(@, <<edge.src, edge.dst, edge.edge_type>>, edge.evidence)]

\* add_edge that records the edge under its source only
add_edge_without_in_edges(g, edge) ==
  LET g1 == IF edge.src \notin DOMAIN g.nodes
            THEN add_node(g, Node(edge.src, "DATASET", EmptyDict)) ELSE g
      g2 == IF edge.dst \notin DOMAIN g1.nodes
            THEN add_node(g1, Node(edge.dst, "DATASET", EmptyDict)) ELSE g1
  IN [g2 EXCEPT
        !.out_edges = AdjAdd(@, edge.src, edge.edge_type, edge.dst),
        !.edge_metadata = Put(@, <<edge.src, edge.dst, edge.edge_type>>, edge.evidence)]

\* Graph.add_edge
add_edge(g, edge) ==
  LET g1 == IF edge.src \notin DOMAIN g.nodes
            THEN add_node(g, Node(edge.src, "DATASET", EmptyDict)) ELSE g
      g2 == IF edge.dst \notin DOMAIN g1.nodes
            THEN add_node(g1, Node(edge.dst, "DATASET", EmptyDict)) ELSE g1
  IN [g2 EXCEPT
        !.out_edges = AdjAdd(@, edge.src, edge.edge_type, edge.dst),
        !.in_edges = AdjAdd(@, edge.dst, edge.edge_type, edge.src),
        !.edge_metadata = Put(@, <<edge.src, edge.dst, edge.edge_type>>, edge.evidence)]

\* the (src, edge_type, dst) entries of out_edges, in iteration order
OutEntries(g) ==
  SetToSeq(UNION {UNION {{<<s, t, d>> : d \in g.out_edges[s][t]} :
                           t \in DOMAIN g.out_edges[s]} :
                    s \in DOMAIN g.out_edges})

\* Graph.edges
edges(g) ==
  LET ents == OutEntries(g)
  IN [i \in 1..Len(ents) |->
        Edge(ents[i][1], ents[i][3], ents[i][2],
             Get(g.edge_metadata, <<ents[i][1], ents[i][3], ents[i][2]>>, EmptyDict))]

\* to_dict that writes every edge with empty evidence
to_dict_no_evidence(g) ==
  LET ks == SetToSeq(DOMAIN g.nodes)
      es == SetToSeq(DOMAIN g.edge_metadata)
  IN [nodes |-> [i \in 1..Len(ks) |->
                   [key |-> g.nodes[ks[i]].key,
                    type |-> EnumValue(g.nodes[ks[i]].node_type),
                    attributes |-> g.nodes[ks[i]].attributes]],
      edges |-> [i \in 1..Len(es) |->
                   [src |-> es[i][1], dst |-> es[i][2],
                    type |-> EnumValue(es[i][3]),
                    evidence |-> EmptyDict]]]

\* Graph.to_dict
to_dict(g) ==
  LET ks == SetToSeq(DOMAIN g.nodes)
      es == SetToSeq(DOMAIN g.edge_metadata)
  IN [nodes |-> [i \in 1..Len(ks) |->
                   [key |-> g.nodes[ks[i]].key,
                    type |-> EnumValue(g.nodes[ks[i]].node_type),
                    attributes |-> g.nodes[ks[i]].attributes]],
      edges |-> [i \in 1..Len(es) |->
                   [src |-> es[i][1], dst |-> es[i][2],
                    type |-> EnumValue(es[i][3]),
                    evidence |-> g.edge_metadata[es[i]]]]]

RECURSIVE from_dict_nodes(_, _, _)
from_dict_nodes(g, ns, i) ==
  IF i > Len(ns) THEN g
  ELSE from_dict_nodes(
         add_node(g, Node(ns[i].key, ParseNodeType(ns[i].type), ns[i].attributes)),
         ns, i + 1)

RECURSIVE from_dict_edges(_, _, _)
from_dict_edges(g, es, i) ==
  IF i > Len(es) THEN g
  ELSE from_dict_edges(
         add_edge(g, Edge(es[i].src, es[i].dst, ParseEdgeType(es[i].type), es[i].evidence)),
         es, i + 1)

\* Graph.from_dict
from_dict(payload) ==
  from_dict_edges(from_dict_nodes(NewGraph, payload.nodes, 1), payload.edges, 1)

(***************************************************************************)
(* lineage/traversal.py                                                    *)
(***************************************************************************)
\* the edge types to follow: "if edge_types:" is false for None and for an
\* empty collection alike
AllowedTypes(g, edge_types) ==
  IF edge_types.some /\ edge_types.val # {}
  THEN edge_types.val
  ELSE LET all_edge_types ==
             UNION {DOMAIN g.out_edges[k] : k \in DOMAIN g.out_edges}
               \cup UNION {DOMAIN g.in_edges[k] : k \in DOMAIN g.in_edges}
       IN IF all_edge_types # {} THEN all_edge_types ELSE EdgeType

\* edge maps with in_edges walked for "both" only
EdgeMaps_no_upstream(direction) ==
  (IF direction \in {"downstream", "both"} THEN <<TRUE>> ELSE <<>>)
    \o (IF direction \in {"both"} THEN <<FALSE>> ELSE <<>>)

\* the edge maps walked from a node: out_edges (forward) and/or in_edges
EdgeMaps(direction) ==
  (IF direction \in {"downstream", "both"} THEN <<TRUE>> ELSE <<>>)
    \o (IF direction \in {"upstream", "both"} THEN <<FALSE>> ELSE <<>>)

\* "if edge_type not in allowed: continue"
TypeFollowed(edge_type, allowed) == edge_type \in allowed

\* the (edge_type, neighbor) pairs of one edge map at node_key, filtered by
\* the allowed edge types, in iteration order
MapItems(g, node_key, forward, allowed) ==
  LET edge_map == IF forward THEN g.out_edges ELSE g.in_edges
      inner == Get(edge_map, node_key, EmptyDict)
  IN SetToSeq(UNION {{[forward |-> forward, edge_type |-> t, neighbor |-> n] :
                        n \in inner[t]} :
                      t \in {t2 \in DOMAIN inner : TypeFollowed(t2, allowed)}})

RECURSIVE NodeItems(_, _, _, _, _)
NodeItems(g, node_key, maps, i, allowed) ==
  IF i > Len(maps) THEN <<>>
  ELSE MapItems(g, node_key, maps[i], allowed) \o NodeItems(g, node_key, maps, i + 1, allowed)

\* a test that consults the visited set only when no depth is given
ShouldQueue_revisiting_within_depth(neighbor, visited, dist, depth) ==
  IF depth.some THEN dist + 1 <= depth.val ELSE neighbor \notin visited

\* "if neighbor not in visited and (depth is None or dist + 1 <= depth)"
ShouldQueue(neighbor, visited, dist, depth) ==
  neighbor \notin visited /\ (~depth.some \/ dist + 1 <= depth.val)

\* body of the innermost loop for one neighbor (traversal.py lines 77-97)
VisitNeighbor(g, st, node_key, dist, item, depth) ==
  LET src == IF item.forward THEN node_key ELSE item.neighbor
      dst == IF item.forward THEN item.neighbor ELSE node_key
      evidence == Get(g.edge_metadata, <<src, dst, item.edge_type>>, EmptyDict)
      neighbor_node == g.nodes[item.neighbor]
      sub1 == add_node(st.subgraph,
                       Node(neighbor_node.key, neighbor_node.node_type,
                            neighbor_node.attributes))
      sub2 == add_edge(sub1, Edge(src, dst, item.edge_type, evidence))
  IN IF ShouldQueue(item.neighbor, st.visited, dist, depth)
     THEN [st EXCEPT !.subgraph = sub2,
                     !.visited = @ \cup {item.neighbor},
                     !.queue = Append(@, <<item.neighbor, dist + 1>>)]
     ELSE [st EXCEPT !.subgraph = sub2]

RECURSIVE VisitNeighbors(_, _, _, _, _, _, _)
VisitNeighbors(g, st, node_key, dist, items, i, depth) ==
  IF i > Len(items) THEN st
  ELSE VisitNeighbors(g, VisitNeighbor(g, st, node_key, dist, items[i], depth),
                      node_key, dist, items, i + 1, depth)

\* "while queue:" (traversal.py lines 58-97)
RECURSIVE BfsLoop(_, _, _, _, _)
BfsLoop(g, st, direction, allowed, depth) ==
  IF st.queue = <<>> THEN st
  ELSE LET node_key == Head(st.queue)[1]
           dist == Head(st.queue)[2]
           node == g.nodes[node_key]
           st1 == [st EXCEPT !.queue = Tail(@),
                             !.expanded = Append(@, node_key),
                             !.subgraph = add_node(@, Node(node.key, node.node_type,
                                                           node.attributes))]
           items == NodeItems(g, node_key, EdgeMaps(direction), 1, allowed)
       IN BfsLoop(g, VisitNeighbors(g, st1, node_key, dist, items, 1, depth),
                  direction, allowed, depth)

\* a traversal that creates a missing start node instead of returning empty
TraverseRun_creating_start(g, start, direction, edge_types, depth) ==
  IF start \notin DOMAIN g.nodes
  THEN [subgraph |-> add_node(NewGraph, Node(start, "DATASET", EmptyDict)),
        queue |-> <<>>, visited |-> {start}, expanded |-> <<start>>]
  ELSE BfsLoop(g,
               [subgraph |-> NewGraph, queue |-> <<<<start, 0>>>>,
                visited |-> {start}, expanded |-> <<>>],
               direction, AllowedTypes(g, edge_types), depth)

\* traverse_dependencies, with the sequence of dequeued nodes kept
TraverseRun(g, start, direction, edge_types, depth) ==
  IF start \notin DOMAIN g.nodes
  THEN [subgraph |-> NewGraph, queue |-> <<>>, visited |-> {}, expanded |-> <<>>]
  ELSE BfsLoop(g,
               [subgraph |-> NewGraph, queue |-> <<<<start, 0>>>>,
                visited |-> {start}, expanded |-> <<>>],
               direction, AllowedTypes(g, edge_types), depth)

traverse_dependencies(g, start, direction, edge_types, depth) ==
  TraverseRun(g, start, direction, edge_types, depth).subgraph

(***************************************************************************)
(* lineage/impact.py                                                       *)
(***************************************************************************)
\* ImpactAnalyzer._build_networkx_graph: a DiGraph keeps one edge per
\* (src, dst) pair
RECURSIVE NxAddEdges(_, _, _)
NxAddEdges(nx, es, i) ==
  IF i > Len(es) THEN nx
  ELSE NxAddEdges([nodes |-> nx.nodes \cup {es[i].src, es[i].dst},
                   adj |-> nx.adj \cup {<<es[i].src, es[i].dst>>}], es, i + 1)

\* a networkx graph that forgets an edge from a node to itself
build_networkx_graph_no_self_loops(g) ==
  LET nx == NxAddEdges([nodes |-> DOMAIN g.nodes, adj |-> {}], edges(g), 1)
  IN [nodes |-> nx.nodes, adj |-> {e \in nx.adj : e[1] # e[2]}]

build_networkx_graph(g) ==
  NxAddEdges([nodes |-> DOMAIN g.nodes, adj |-> {}], edges(g), 1)

\* the graph searched without being reversed
NxReverse_identity(nx) == nx

\* nx_graph.reverse(copy=True)
NxReverse(nx) == [nodes |-> nx.nodes, adj |-> {<<e[2], e[1]>> : e \in nx.adj}]

\* one BFS level: every node of the current level, in order, hands its path to
\* each successor that has none yet
RECURSIVE NxLevel(_, _, _, _, _)
NxLevel(nx, paths, level, i, nextlevel) ==
  IF i > Len(level) THEN [paths |-> paths, nextlevel |-> nextlevel]
  ELSE LET v == level[i]
           fresh == SetToSeq({w \in nx.nodes : <<v, w>> \in nx.adj /\ w \notin DOMAIN paths})
           grown == [w \in DOMAIN paths \cup {fresh[j] : j \in 1..Len(fresh)} |->
                       IF w \in DOMAIN paths THEN paths[w] ELSE Append(paths[v], w)]
       IN NxLevel(nx, grown, level, i + 1, nextlevel \o fresh)

\* nx.single_source_shortest_path(G, source, cutoff)
RECURSIVE NxBfs(_, _, _, _, _)
NxBfs(nx, paths, level, depth, cutoff) ==
  IF level = <<>> \/ depth >= cutoff THEN paths
  ELSE LET r == NxLevel(nx, paths, level, 1, <<>>)
       IN NxBfs(nx, r.paths, r.nextlevel, depth + 1, cutoff)

single_source_shortest_path(nx, source, cutoff) ==
  NxBfs(nx, [w \in {source} |-> <<source>>], <<source>>, 0, cutoff)

\* nx.single_source_shortest_path_length(G, source, cutoff)
single_source_shortest_path_length(nx, source, cutoff) ==
  LET paths == single_source_shortest_path(nx, source, cutoff)
  IN [w \in DOMAIN paths |-> Len(paths[w]) - 1]

\* a bucketing whose medium band reaches one step further
severity_for_distance_wide_medium(distance) ==
  IF distance <= 1 THEN "critical"
  ELSE IF distance = 2 THEN "high"
  ELSE IF distance <= 5 THEN "medium"
  ELSE "low"

\* ImpactAnalyzer._severity_for_distance
severity_for_distance(distance) ==
  IF distance <= 1 THEN "critical"
  ELSE IF distance = 2 THEN "high"
  ELSE IF distance <= 4 THEN "medium"
  ELSE "low"

RECURSIVE SumOver(_, _)
SumOver(f, S) ==
  IF S = {} THEN 0
  ELSE LET x == CHOOSE y \in S : TRUE IN f[x] + SumOver(f, S \ {x})

MaxOver(f) == CHOOSE m \in {f[x] : x \in DOMAIN f} : \A x \in DOMAIN f : f[x] <= m

\* sorted(lengths.items(), key=distance), the start node skipped
RECURSIVE ImpactedFrom(_, _, _, _, _)
ImpactedFrom(lengths, paths, node_key, d, maxd) ==
  IF d > maxd THEN <<>>
  ELSE LET at == SetToSeq({w \in DOMAIN lengths : lengths[w] = d /\ w # node_key})
       IN [i \in 1..Len(at) |->
             [key |-> at[i], distance |-> d,
              severity |-> severity_for_distance(d),
              path |-> Get(paths, at[i], <<>>)]]
          \o ImpactedFrom(lengths, paths, node_key, d + 1, maxd)

\* the metadata of the result; the average is kept as numerator / denominator
ImpactMetadata(lengths) ==
  IF DOMAIN lengths = {}
  THEN [max_distance |-> 0, average_num |-> 0, average_den |-> 1]
  ELSE [max_distance |-> MaxOver(lengths),
        average_num |-> SumOver(lengths, DOMAIN lengths),
        average_den |-> Cardinality(DOMAIN lengths)]

\* an analysis that reports nothing for a key that is not a node
analyze_impact_unchecked(g, node_key, max_depth) ==
  LET nx_graph == build_networkx_graph(g)
  IN IF node_key \notin nx_graph.nodes
     THEN [error |-> FALSE, source |-> node_key, impacted_objects |-> <<>>,
           metadata |-> [max_distance |-> 0, average_num |-> 0, average_den |-> 1]]
     ELSE LET reverse_graph == NxReverse(nx_graph)
              lengths == single_source_shortest_path_length(reverse_graph, node_key, max_depth)
              paths == single_source_shortest_path(reverse_graph, node_key, max_depth)
          IN [error |-> FALSE,
              source |-> node_key,
              impacted_objects |-> ImpactedFrom(lengths, paths, node_key, 0, MaxOver(lengths)),
              metadata |-> ImpactMetadata(lengths)]

\* ImpactAnalyzer.analyze_impact
analyze_impact(g, node_key, max_depth) ==
  LET nx_graph == build_networkx_graph(g)
  IN IF node_key \notin nx_graph.nodes
     THEN [error |-> TRUE, names |-> node_key]
     ELSE LET reverse_graph == NxReverse(nx_graph)
              lengths == single_source_shortest_path_length(reverse_graph, node_key, max_depth)
              paths == single_source_shortest_path(reverse_graph, node_key, max_depth)
          IN [error |-> FALSE,
              source |-> node_key,
              impacted_objects |-> ImpactedFrom(lengths, paths, node_key, 0, MaxOver(lengths)),
              metadata |-> ImpactMetadata(lengths)]

\* nx.simple_cycles: the simple paths of a DiGraph with k nodes, grown from
\* the paths with k - 1 nodes
RECURSIVE NxSimplePaths(_, _)
NxSimplePaths(nx, k) ==
  IF k = 1 THEN {<<n>> : n \in nx.nodes}
  ELSE {Append(p, w) : <<p, w>> \in
          {pw \in NxSimplePaths(nx, k - 1) \X nx.nodes :
             /\ \A i \in 1..Len(pw[1]) : pw[1][i] # pw[2]
             /\ <<pw[1][Len(pw[1])], pw[2]>> \in nx.adj}}

\* the rotations of a cycle
NxRotations(p) ==
  {[i \in 1..Len(p) |-> p[((i + r - 1) % Len(p)) + 1]] : r \in 0..(Len(p) - 1)}

\* nx.simple_cycles: every elementary circuit once, a self-loop being the
\* circuit of its one node; the rotation a circuit is listed in is not
\* specified
NxSimpleCycles(nx) ==
  LET closed == UNION {{p \in NxSimplePaths(nx, k) : <<p[Len(p)], p[1]>> \in nx.adj} :
                         k \in 1..Cardinality(nx.nodes)}
      classes == {NxRotations(p) : p \in closed}
  IN {CHOOSE p \in c : TRUE : c \in classes}

\* ImpactAnalyzer.identify_circular_dependencies
identify_circular_dependencies(g) ==
  LET found == SetToSeq(NxSimpleCycles(build_networkx_graph(g)))
  IN SelectSeq(found, LAMBDA cycle : cycle # <<>>)

(***************************************************************************)
(* lineage/column_parser.py, on statements as sqlglot parses them: the     *)
(* class of each expression, and its table, name and alias, "" when the    *)
(* statement gives none.  Table names carry no database or schema part.    *)
(***************************************************************************)
\* QualifiedColumn, default_database and default_schema being None
QualifiedColumn(table, column) == [table |-> table, column |-> column]

\* ColumnLineageGraph()
ColumnLineageGraph == [transformations |-> <<>>, issues |-> <<>>]

\* ColumnLineageExtractor._resolve_table_name
resolve_table_name(aliases, table_ref) ==
  IF table_ref \in DOMAIN aliases THEN aliases[table_ref] ELSE table_ref

\* ColumnLineageExtractor._resolve_column
resolve_column(aliases, col) ==
  LET table_name == IF col.table # "" THEN resolve_table_name(aliases, col.table) ELSE ""
  IN IF table_name = "" THEN None
     ELSE Some(QualifiedColumn(table_name, col.name))

\* ColumnLineageExtractor._extract_table_name of a table with no db or catalog
extract_table_name(table_expr) == table_expr.name

\* ColumnLineageExtractor._extract_table_aliases over stmt.find_all(exp.Table)
RECURSIVE extract_table_aliases(_, _, _)
extract_table_aliases(aliases, tables, i) ==
  IF i > Len(tables) THEN aliases
  ELSE extract_table_aliases(
         IF tables[i].alias # "" /\ extract_table_name(tables[i]) # ""
         THEN Put(aliases, tables[i].alias, extract_table_name(tables[i]))
         ELSE aliases,
         tables, i + 1)

\* f"column_{len(graph.transformations) + 1}"
GeneratedColumnName(n) == <<"column_1", "column_2", "column_3">>[n]

\* ColumnLineageExtractor._process_single_column for the expression classes
\* Column, Alias of a Column, and Literal; the confidence is in tenths
process_single_column(aliases, result, expr, target_table, target_column_name) ==
  LET name == IF target_column_name # "" THEN target_column_name
              ELSE IF expr.alias # "" THEN expr.alias
              ELSE IF expr.class = "Column" THEN expr.name
              ELSE GeneratedColumnName(Len(result.transformations) + 1)
      source_col == resolve_column(aliases, expr)
      resolved == expr.class \in {"Column", "Alias"} /\ source_col.some
      source_columns == IF resolved THEN <<source_col.val>> ELSE <<>>
      transformation_type ==
        IF resolved /\ expr.class = "Column" THEN "direct"
        ELSE IF resolved /\ expr.class = "Alias" THEN "alias"
        ELSE IF expr.class = "Literal" THEN "literal"
        ELSE "unknown"
  IN [result EXCEPT !.transformations =
        Append(@, [source_columns |-> source_columns,
                   target_column |-> QualifiedColumn(target_table, name),
                   transformation_type |-> transformation_type,
                   confidence |-> IF source_columns # <<>> THEN 10 ELSE 5])]

\* ColumnLineageExtractor._process_star_column, the star naming no table
process_star_column(result) ==
  [result EXCEPT !.issues = Append(@, "Star expansion across all tables not fully resolved")]

\* ColumnLineageExtractor._process_select_columns
RECURSIVE process_select_columns(_, _, _, _, _, _)
process_select_columns(aliases, result, expressions, i, target_table, target_columns) ==
  IF i > Len(expressions) THEN result
  ELSE process_select_columns(
         aliases,
         IF expressions[i].class = "Star" THEN process_star_column(result)
         ELSE process_single_column(aliases, result, expressions[i], target_table,
                                    IF i <= Len(target_columns) THEN target_columns[i] ELSE ""),
         expressions, i + 1, target_table, target_columns)

\* ColumnLineageExtractor._process_create_statement
process_create_statement(aliases, parsed, target_table) ==
  LET table_name == IF extract_table_name(parsed.this) = "" /\ target_table.some
                    THEN target_table.val ELSE extract_table_name(parsed.this)
  IN [aliases |-> aliases,
      graph |-> process_select_columns(aliases, ColumnLineageGraph, parsed.expressions,
                                       1, table_name, <<>>)]

\* ColumnLineageExtractor._process_insert_statement
process_insert_statement(aliases, parsed) ==
  [aliases |-> aliases,
   graph |-> process_select_columns(aliases, ColumnLineageGraph, parsed.expressions, 1,
                                    extract_table_name(parsed.this), parsed.columns)]

\* ColumnLineageExtractor._process_select_statement; the statements have no
\* CTE, so _extract_ctes records nothing
process_select_statement(aliases, parsed, target_table) ==
  LET collected == extract_table_aliases(aliases, parsed.tables, 1)
  IN [aliases |-> collected,
      graph |-> process_select_columns(collected, ColumnLineageGraph, parsed.expressions, 1,
                                       IF target_table.some THEN target_table.val
                                       ELSE "SELECT_RESULT", <<>>)]

\* ColumnLineageExtractor._extract_columns_from_expression: the columns that
\* expr.find_all(exp.Column) finds and _resolve_column resolves
extract_columns_from_expression(aliases, expr) ==
  IF expr.class = "Column" /\ resolve_column(aliases, expr).some
  THEN <<resolve_column(aliases, expr).val>>
  ELSE <<>>

\* ColumnLineageExtractor._determine_transformation_type
determine_transformation_type(expr) ==
  IF expr.class = "Case" THEN "case"
  ELSE IF expr.class = "Subquery" THEN "subquery"
  ELSE IF expr.class = "Column" THEN "direct"
  ELSE IF expr.class = "Literal" THEN "literal"
  ELSE "unknown"

\* ColumnLineageExtractor._process_update_columns over update.args.get("set")
RECURSIVE process_update_columns(_, _, _, _, _)
process_update_columns(aliases, result, set, i, target_table) ==
  IF i > Len(set) THEN result
  ELSE process_update_columns(
         aliases,
         IF set[i].class = "EQ" /\ set[i].left.class = "Column"
         THEN LET source_columns == extract_columns_from_expression(aliases, set[i].right)
              IN [result EXCEPT !.transformations =
                    Append(@, [source_columns |-> source_columns,
                               target_column |-> QualifiedColumn(target_table, set[i].left.name),
                               transformation_type |->
                                 determine_transformation_type(set[i].right),
                               confidence |-> IF source_columns # <<>> THEN 10 ELSE 5])]
         ELSE result,
         set, i + 1, target_table)

\* the loop over the updates of one WHEN clause
RECURSIVE process_when_updates(_, _, _, _, _)
process_when_updates(aliases, result, updates, j, target_table) ==
  IF j > Len(updates) THEN result
  ELSE process_when_updates(
         aliases,
         IF updates[j].class = "Update"
         THEN process_update_columns(aliases, result, updates[j].set, 1, target_table)
         ELSE result,
         updates, j + 1, target_table)

\* the loop over stmt.args.get("whens", [])
RECURSIVE process_whens(_, _, _, _, _)
process_whens(aliases, result, whens, i, target_table) ==
  IF i > Len(whens) THEN result
  ELSE process_whens(aliases,
                     process_when_updates(aliases, result, whens[i].updates, 1, target_table),
                     whens, i + 1, target_table)

\* ColumnLineageExtractor._process_merge_statement
process_merge_statement(aliases, parsed) ==
  [aliases |-> aliases,
   graph |-> process_whens(aliases, ColumnLineageGraph, parsed.whens, 1,
                           extract_table_name(parsed.this))]

\* validate_object_name on the names used here: every dot-separated part
\* matches [A-Za-z_][A-Za-z0-9_$.]*
validate_object_name(name) == name \in {"tgt", "SELECT_RESULT", "customers", "orders"}

\* ColumnLineageExtractor.extract_column_lineage for text that holds one
\* statement; text that is empty or does not parse has class "None"
extract_column_lineage(aliases, parsed, target_table) ==
  IF target_table.some /\ target_table.val # "" /\ ~validate_object_name(target_table.val)
  THEN [aliases |-> aliases,
        graph |-> [ColumnLineageGraph EXCEPT !.issues = <<"Invalid target table name">>]]
  ELSE IF parsed.class = "None"
  THEN [aliases |-> aliases,
        graph |-> [ColumnLineageGraph EXCEPT !.issues = <<"Failed to parse SQL">>]]
  ELSE IF parsed.class = "Create" THEN process_create_statement(aliases, parsed, target_table)
  ELSE IF parsed.class = "Insert" THEN process_insert_statement(aliases, parsed)
  ELSE IF parsed.class = "Select" THEN process_select_statement(aliases, parsed, target_table)
  ELSE IF parsed.class = "Merge" THEN process_merge_statement(aliases, parsed)
  ELSE [aliases |-> aliases, graph |-> ColumnLineageGraph]

(***************************************************************************)
(* lineage/history.py: the files of the storage directory                  *)
(***************************************************************************)
\* Limits.MAX_SNAPSHOTS
MAX_SNAPSHOTS == 2

\* the values secrets.token_hex(6) is drawn from
SnapshotIds == {"s1", "s2", "s3"}

Managers == {"m1"}

\* a file that Path.write_text has opened (and so truncated) and not yet, or
\* never, written to the end
PartialIndex == [ok |-> FALSE, entries |-> <<>>]

IndexOf(snapshots) == [ok |-> TRUE, entries |-> snapshots]

\* the tags a caller gives to capture_snapshot
Tags == {"t1"}

\* LineageSnapshot; storage_file is f"{snapshot_id}.json"
LineageSnapshot(snapshot_id, timestamp, tag) ==
  [snapshot_id |-> snapshot_id, timestamp |-> timestamp, tag |-> tag,
   storage_file |-> snapshot_id]

\* LineageHistoryManager._read_index: a file that does not parse reads as no
\* snapshots
read_index(idx) == IF idx.ok THEN idx.entries ELSE <<>>

\* the outcome of _read_index when read_text raises OSError
read_index_oserror == <<>>

\* LineageHistoryManager._enforce_retention: how many snapshots are surplus
Surplus(snapshots) ==
  IF Len(snapshots) <= MAX_SNAPSHOTS THEN 0 ELSE Len(snapshots) - MAX_SNAPSHOTS

\* snapshots[:surplus]
Pruned(snapshots) == SubSeq(snapshots, 1, Surplus(snapshots))

\* snapshots[surplus:]
Kept(snapshots) == SubSeq(snapshots, Surplus(snapshots) + 1, Len(snapshots))

IdleLocals ==
  [result |-> "none", before |-> <<>>, tag |-> None,
   snapshot |-> LineageSnapshot("s1", 0, None), snapshots |-> <<>>, i |-> 0]

HistoryInit ==
  /\ index = IndexOf(<<>>)
  /\ files = EmptyDict
  /\ pc = [m \in Managers |-> "idle"]
  /\ loc = [m \in Managers |-> IdleLocals]
  /\ now = 0
  /\ captures = 0

\* the first index entry that load_snapshot's loop matches, 0 when none does
FirstMatch(snapshots, snapshot_id) ==
  IF \E i \in 1..Len(snapshots) : snapshots[i].snapshot_id = snapshot_id
  THEN CHOOSE i \in 1..Len(snapshots) :
         /\ snapshots[i].snapshot_id = snapshot_id
         /\ \A j \in 1..(i - 1) : snapshots[j].snapshot_id # snapshot_id
  ELSE 0

\* LineageHistoryManager.load_snapshot, given the index entries it read and
\* the payload files; json.loads of a partly written file raises
load_snapshot(snapshots, payloads, snapshot_id) ==
  LET i == FirstMatch(snapshots, snapshot_id) IN
  IF i = 0 THEN [outcome |-> "KeyError", names |-> snapshot_id]
  ELSE IF snapshots[i].storage_file = ""
       THEN [outcome |-> "FileNotFoundError", names |-> ""]
  ELSE IF snapshots[i].storage_file \notin DOMAIN payloads
       THEN [outcome |-> "FileNotFoundError", names |-> snapshots[i].storage_file]
  ELSE IF ~payloads[snapshots[i].storage_file].complete
       THEN [outcome |-> "JSONDecodeError", names |-> snapshots[i].storage_file]
  ELSE [outcome |-> "returned", payload |-> payloads[snapshots[i].storage_file]]

\* an exception leaves capture_snapshot
Raise(m) ==
  /\ pc' = [pc EXCEPT ![m] = "idle"]
  /\ loc' = [loc EXCEPT ![m].result = "failed"]

(***************************************************************************)
(* The graph model under its mutating calls, and the wire round trip.      *)
(***************************************************************************)
GraphKeys == {"a", "b"}

GraphEdgeTypes == {"DERIVES_FROM", "CONSUMES"}

NodeInputs ==
  {Node("a", "DATASET", [k1 |-> "2", k2 |-> "1"]),
   Node("a", "TASK", [k1 |-> "1"]),
   Node("b", "TASK", EmptyDict)}

EvidenceInputs == {[e1 |-> "x"], [e2 |-> "y"]}

EdgeInputs ==
  {Edge(s, d, t, e) : <<s, d, t, e>> \in GraphKeys \X GraphKeys \X GraphEdgeTypes \X EvidenceInputs}

NoOp == [op |-> "none"]

\* no analysis has been run
AnalysesInit ==
  /\ cycles = <<>>
  /\ loaded = NoOp
  /\ table_aliases = EmptyDict
  /\ stmt = NoOp
  /\ lineage = ColumnLineageGraph
  /\ todo = <<{}, {}>>
  /\ combined = <<NewGraph, NewGraph>>
  /\ storage = EmptyDict
  /\ today = 0
  /\ cleaned = NoOp

InitGraph ==
  /\ graph = NewGraph
  /\ prev = NewGraph
  /\ last = NoOp
  /\ restored = NewGraph
  /\ subgraph = NewGraph
  /\ expanded = <<>>
  /\ impact = NoOp
  /\ HistoryInit
  /\ AnalysesInit

AddNode ==
  \E n \in NodeInputs :
    /\ graph' = add_node(graph, n)
    /\ prev' = graph
    /\ last' = [op |-> "add_node", node |-> n]
    /\ restored' = NewGraph
    /\ UNCHANGED <<subgraph, expanded, impact>>
    /\ UNCHANGED <<hvars, xvars>>

AddEdge ==
  \E e \in EdgeInputs :
    /\ Cardinality(DOMAIN add_edge(graph, e).edge_metadata) <= MaxEdges
    /\ graph' = add_edge(graph, e)
    /\ prev' = graph
    /\ last' = [op |-> "add_edge", edge |-> e]
    /\ restored' = NewGraph
    /\ UNCHANGED <<subgraph, expanded, impact>>
    /\ UNCHANGED <<hvars, xvars>>

SetNodeType ==
  \E k \in GraphKeys, t \in NodeType :
    /\ graph' = set_node_type(graph, k, t)
    /\ prev' = graph
    /\ last' = [op |-> "set_node_type", key |-> k, node_type |-> t]
    /\ restored' = NewGraph
    /\ UNCHANGED <<subgraph, expanded, impact>>
    /\ UNCHANGED <<hvars, xvars>>

RoundTrip ==
  /\ restored' = from_dict(to_dict(graph))
  /\ last' = [op |-> "round_trip"]
  /\ prev' = graph
  /\ UNCHANGED <<graph, subgraph, expanded, impact>>
  /\ UNCHANGED <<hvars, xvars>>

NextGraph == AddNode \/ AddEdge \/ SetNodeType \/ RoundTrip

SpecGraph == InitGraph /\ [][NextGraph]_vars

(***************************************************************************)
(* Claims about the graph model.                                           *)
(***************************************************************************)
\* how many entries of the edges listing carry the triple (s, d, t)
EdgeCount(g, s, d, t) ==
  Cardinality({i \in 1..Len(edges(g)) :
                 edges(g)[i].src = s /\ edges(g)[i].dst = d /\ edges(g)[i].edge_type = t})

LastTriple == <<last.edge.src, last.edge.dst, last.edge.edge_type>>

\* every entry of d is an entry of e
DictIncluded(d, e) == \A k \in DOMAIN d : k \in DOMAIN e /\ e[k] = d[k]

\* C3: adding an edge whose (source, target, kind) triple is already in the
\* graph leaves exactly one edge with that triple, and the evidence stored for
\* it afterwards contains the evidence entries of both additions.
C3_EvidenceMerged ==
  (last.op = "add_edge" /\ LastTriple \in DOMAIN prev.edge_metadata) =>
    /\ EdgeCount(graph, last.edge.src, last.edge.dst, last.edge.edge_type) = 1
    /\ DictIncluded(prev.edge_metadata[LastTriple], graph.edge_metadata[LastTriple])
    /\ DictIncluded(last.edge.evidence, graph.edge_metadata[LastTriple])

\* C7: both endpoints of every edge are nodes of the graph; add_edge with an
\* absent endpoint creates it as a dataset node with empty attributes and still
\* records the edge, and an endpoint that already exists keeps its kind and
\* attributes.
EndpointsExist(g) ==
  /\ \A tr \in DOMAIN g.edge_metadata : tr[1] \in DOMAIN g.nodes /\ tr[2] \in DOMAIN g.nodes
  /\ \A s \in DOMAIN g.out_edges :
       s \in DOMAIN g.nodes /\ \A t \in DOMAIN g.out_edges[s] : g.out_edges[s][t] \subseteq DOMAIN g.nodes
  /\ \A d \in DOMAIN g.in_edges :
       d \in DOMAIN g.nodes /\ \A t \in DOMAIN g.in_edges[d] : g.in_edges[d][t] \subseteq DOMAIN g.nodes

EndpointAfterAddEdge(x) ==
  /\ x \in DOMAIN graph.nodes
  /\ IF x \in DOMAIN prev.nodes
     THEN graph.nodes[x] = prev.nodes[x]
     ELSE graph.nodes[x] = Node(x, "DATASET", EmptyDict)

EdgeRecorded(g, e) ==
  /\ <<e.src, e.dst, e.edge_type>> \in DOMAIN g.edge_metadata
  /\ e.src \in DOMAIN g.out_edges
  /\ e.edge_type \in DOMAIN g.out_edges[e.src]
  /\ e.dst \in g.out_edges[e.src][e.edge_type]
  /\ e.dst \in DOMAIN g.in_edges
  /\ e.edge_type \in DOMAIN g.in_edges[e.dst]
  /\ e.src \in g.in_edges[e.dst][e.edge_type]

C7_EndpointsAreNodes ==
  /\ EndpointsExist(graph)
  /\ last.op = "add_edge" =>
       /\ EndpointAfterAddEdge(last.edge.src)
       /\ EndpointAfterAddEdge(last.edge.dst)
       /\ EdgeRecorded(graph, last.edge)

C7_Witness ==
  /\ last.op = "add_edge"
  /\ last.edge.src \notin DOMAIN prev.nodes
  /\ last.edge.dst \in DOMAIN prev.nodes
  /\ prev.nodes[last.edge.dst].node_type = "TASK"
  /\ prev.nodes[last.edge.dst].attributes # EmptyDict

\* C8: Graph.from_dict(g.to_dict()) has the same node keys with the same kinds
\* and attributes, the same edge triples with the same evidence, and the same
\* outgoing and incoming adjacency indices as g.
C8_RoundTrip ==
  last.op = "round_trip" =>
    /\ DOMAIN restored.nodes = DOMAIN graph.nodes
    /\ \A k \in DOMAIN graph.nodes :
         /\ restored.nodes[k].key = k
         /\ restored.nodes[k].node_type = graph.nodes[k].node_type
         /\ restored.nodes[k].attributes = graph.nodes[k].attributes
    /\ DOMAIN restored.edge_metadata = DOMAIN graph.edge_metadata
    /\ \A tr \in DOMAIN graph.edge_metadata :
         restored.edge_metadata[tr] = graph.edge_metadata[tr]
    /\ restored.out_edges = graph.out_edges
    /\ restored.in_edges = graph.in_edges

C8_Witness ==
  /\ last.op = "round_trip"
  /\ Cardinality(DOMAIN graph.edge_metadata) >= 2
  /\ \E k \in DOMAIN graph.nodes :
       graph.nodes[k].node_type = "TASK" /\ graph.nodes[k].attributes # EmptyDict
  /\ \E k \in DOMAIN graph.nodes : graph.out_edges[k] = EmptyDict

\* C9: adding a node whose key is already in the graph leaves exactly one node
\* with that key, keeps the kind it had, and sets its attributes to the previous
\* attributes updated with the new ones; no stored attribute key is lost and the
\* adjacency entries of that node are unchanged.
C9_AddNodeMerges ==
  (last.op = "add_node" /\ last.node.key \in DOMAIN prev.nodes) =>
    LET k == last.node.key IN
    /\ DOMAIN graph.nodes = DOMAIN prev.nodes
    /\ graph.nodes[k].key = k
    /\ graph.nodes[k].node_type = prev.nodes[k].node_type
    /\ graph.nodes[k].attributes = Update(prev.nodes[k].attributes, last.node.attributes)
    /\ DOMAIN prev.nodes[k].attributes \subseteq DOMAIN graph.nodes[k].attributes
    /\ graph.out_edges[k] = prev.out_edges[k]
    /\ graph.in_edges[k] = prev.in_edges[k]

C9_Witness ==
  /\ last.op = "add_node"
  /\ last.node.key \in DOMAIN prev.nodes
  /\ prev.nodes[last.node.key].node_type # last.node.node_type
  /\ prev.nodes[last.node.key].attributes # EmptyDict
  /\ graph.nodes[last.node.key].attributes # prev.nodes[last.node.key].attributes
  /\ graph.nodes[last.node.key].attributes # last.node.attributes
  /\ graph.out_edges[last.node.key] # EmptyDict

\* C27: the three edge structures agree: (s, t, k) is a key of edge_metadata
\* iff t is in out_edges[s][k] iff s is in in_edges[t][k]; the edges listing
\* holds each such triple exactly once; an edge added with another kind
\* between the same two nodes is kept beside the first.
OutTriples(g) ==
  UNION {UNION {{<<s, d, k>> : d \in g.out_edges[s][k]} : k \in DOMAIN g.out_edges[s]} :
           s \in DOMAIN g.out_edges}

InTriples(g) ==
  UNION {UNION {{<<s, d, k>> : s \in g.in_edges[d][k]} : k \in DOMAIN g.in_edges[d]} :
           d \in DOMAIN g.in_edges}

C27_EdgeStructuresAgree ==
  /\ OutTriples(graph) = DOMAIN graph.edge_metadata
  /\ InTriples(graph) = DOMAIN graph.edge_metadata
  /\ Len(edges(graph)) = Cardinality(DOMAIN graph.edge_metadata)
  /\ \A tr \in DOMAIN graph.edge_metadata : EdgeCount(graph, tr[1], tr[2], tr[3]) = 1
  /\ last.op = "add_edge" =>
       DOMAIN graph.edge_metadata = DOMAIN prev.edge_metadata \cup {LastTriple}

C27_Witness ==
  /\ last.op = "add_edge"
  /\ Cardinality(DOMAIN graph.edge_metadata) = 2
  /\ \E tr1 \in DOMAIN graph.edge_metadata, tr2 \in DOMAIN graph.edge_metadata :
       tr1[1] = tr2[1] /\ tr1[2] = tr2[2] /\ tr1[3] # tr2[3]
  /\ Cardinality(DOMAIN prev.edge_metadata) = 1

(***************************************************************************)
(* Read-only consumers of a built graph: traversal and impact analysis.    *)
(***************************************************************************)
TravKeys == {"a", "b", "c"}

TravEdgeTypes == {"DERIVES_FROM", "PRODUCES"}

Directions == {"upstream", "downstream", "both"}

EdgeTypeFilters == {None} \cup {Some(K) : K \in SUBSET TravEdgeTypes}

DepthInputs == {None} \cup {Some(k) : k \in 0..MaxDepth}

\* Queries leave the graph as it is: a query that follows a query reaches the
\* states the query reaches right after the build, so queries start there.
Built == last.op \in {"none", "build"}

BuildNode ==
  \E k \in TravKeys :
    /\ graph' = add_node(graph, Node(k, "DATASET", EmptyDict))
    /\ last' = [op |-> "build"]
    /\ subgraph' = NewGraph
    /\ expanded' = <<>>
    /\ impact' = NoOp
    /\ UNCHANGED <<prev, restored>>
    /\ UNCHANGED <<hvars, xvars>>

BuildEdge ==
  \E s \in TravKeys, d \in TravKeys, t \in TravEdgeTypes :
    LET g == add_edge(graph, Edge(s, d, t, EmptyDict)) IN
    /\ Cardinality(DOMAIN g.edge_metadata) <= MaxTravEdges
    /\ graph' = g
    /\ last' = [op |-> "build"]
    /\ subgraph' = NewGraph
    /\ expanded' = <<>>
    /\ impact' = NoOp
    /\ UNCHANGED <<prev, restored>>
    /\ UNCHANGED <<hvars, xvars>>

Traverse ==
  \E start \in TravKeys, direction \in Directions, edge_types \in EdgeTypeFilters,
     depth \in DepthInputs :
    LET run == TraverseRun(graph, start, direction, edge_types, depth) IN
    /\ Built
    /\ subgraph' = traverse_dependencies(graph, start, direction, edge_types, depth)
    /\ expanded' = run.expanded
    /\ last' = [op |-> "traverse", start |-> start, direction |-> direction,
                edge_types |-> edge_types, depth |-> depth]
    /\ impact' = NoOp
    /\ UNCHANGED <<graph, prev, restored>>
    /\ UNCHANGED <<hvars, xvars>>

AnalyzeImpact ==
  \E node_key \in TravKeys, max_depth \in 0..MaxImpactDepth :
    /\ Built
    /\ impact' = analyze_impact(graph, node_key, max_depth)
    /\ last' = [op |-> "analyze_impact", node_key |-> node_key, max_depth |-> max_depth]
    /\ subgraph' = NewGraph
    /\ expanded' = <<>>
    /\ UNCHANGED <<graph, prev, restored>>
    /\ UNCHANGED <<hvars, xvars>>

NextTraverse == BuildNode \/ BuildEdge \/ Traverse \/ AnalyzeImpact

SpecTraverse == InitGraph /\ [][NextTraverse]_vars

(***************************************************************************)
(* Claims about traversal and impact analysis.  Reachability and distance  *)
(* are stated over the edge triples of the graph, not over the search.     *)
(***************************************************************************)
\* the nodes one hop from a node of S in the given direction, along edges
\* whose kind is in K
Hop(g, direction, K, S) ==
  (IF direction \in {"downstream", "both"}
   THEN {tr[2] : tr \in {x \in DOMAIN g.edge_metadata : x[1] \in S /\ x[3] \in K}}
   ELSE {})
  \cup
  (IF direction \in {"upstream", "both"}
   THEN {tr[1] : tr \in {x \in DOMAIN g.edge_metadata : x[2] \in S /\ x[3] \in K}}
   ELSE {})

\* the nodes at most k hops from a node of S
RECURSIVE Within(_, _, _, _, _)
Within(g, direction, K, S, k) ==
  IF k <= 0 THEN S ELSE Within(g, direction, K, S \cup Hop(g, direction, K, S), k - 1)

Reachable(g, direction, K, s) ==
  Within(g, direction, K, {s}, Cardinality(DOMAIN g.nodes))

\* shortest distance from s to a node v reachable from it
Distance(g, direction, K, s, v) ==
  CHOOSE k \in 0..Cardinality(DOMAIN g.nodes) :
    /\ v \in Within(g, direction, K, {s}, k)
    /\ \A j \in 0..(k - 1) : v \notin Within(g, direction, K, {s}, j)

Traversed == last.op = "traverse" /\ last.start \in DOMAIN graph.nodes

\* C1: every node of the graph returned with depth cap k has shortest distance
\* from the start (in the direction walked) at most k; depth 0 returns only the
\* start node and no edges.
C1_DepthCapRespected ==
  (Traversed /\ last.depth.some) =>
    /\ DOMAIN subgraph.nodes
         \subseteq Within(graph, last.direction, EdgeType, {last.start}, last.depth.val)
    /\ last.depth.val = 0 =>
         (DOMAIN subgraph.nodes = {last.start} /\ DOMAIN subgraph.edge_metadata = {})

\* C2: with no depth cap and no kind filter the node set of the result is
\* exactly the set of nodes reachable from the start in the direction walked.
C2_ExactlyReachable ==
  (Traversed /\ ~last.depth.some /\ ~last.edge_types.some) =>
    DOMAIN subgraph.nodes = Reachable(graph, last.direction, EdgeType, last.start)

C2_Witness ==
  /\ Traversed /\ ~last.depth.some /\ ~last.edge_types.some
  /\ last.direction = "upstream"
  /\ Cardinality(DOMAIN subgraph.nodes) = 2
  /\ Cardinality(DOMAIN graph.nodes) = 3
  /\ Reachable(graph, "downstream", EdgeType, last.start) # {last.start}

ExpandedSet == {expanded[i] : i \in 1..Len(expanded)}

\* every edge of a kind in K that leaves (downstream) or enters (upstream) an
\* expanded node is in the result
Followed(K) ==
  \A tr \in DOMAIN graph.edge_metadata :
    (/\ tr[3] \in K
     /\ \/ last.direction \in {"downstream", "both"} /\ tr[1] \in ExpandedSet
        \/ last.direction \in {"upstream", "both"} /\ tr[2] \in ExpandedSet)
    => tr \in DOMAIN subgraph.edge_metadata

\* C10: with a set K of edge kinds passed as edge_types (the empty set
\* included) every edge of the result has a kind in K and every returned node
\* is reached through edges of kinds in K only; with edge_types omitted, edges
\* of every kind present in the graph are followed.
C10_KindFilter ==
  Traversed =>
    IF last.edge_types.some
    THEN /\ \A tr \in DOMAIN subgraph.edge_metadata : tr[3] \in last.edge_types.val
         /\ DOMAIN subgraph.nodes
              \subseteq Reachable(graph, last.direction, last.edge_types.val, last.start)
    ELSE Followed(EdgeType)

\* C4: analyze_impact(s, max_depth = m) reports exactly the nodes v # s from
\* which s is reachable along at most m edges, each once, with the length of
\* the shortest such chain as distance and a shortest chain from s to v as
\* path.
Analyzed == last.op = "analyze_impact" /\ ~impact.error

ImpactedKeys == {impact.impacted_objects[i].key : i \in 1..Len(impact.impacted_objects)}

\* p lists a chain v -> ... -> s of edges of g backwards, from s to v
IsChainFrom(g, p, s, v) ==
  /\ Len(p) >= 1
  /\ p[1] = s
  /\ p[Len(p)] = v
  /\ \A i \in 1..(Len(p) - 1) :
       \E t \in EdgeType : <<p[i + 1], p[i], t>> \in DOMAIN g.edge_metadata

ImpactExact ==
  LET s == last.node_key
      objs == impact.impacted_objects
  IN /\ ImpactedKeys = Within(graph, "upstream", EdgeType, {s}, last.max_depth) \ {s}
     /\ \A i \in 1..Len(objs) : \A j \in 1..Len(objs) : objs[i].key = objs[j].key => i = j
     /\ \A i \in 1..Len(objs) :
          /\ objs[i].distance = Distance(graph, "upstream", EdgeType, s, objs[i].key)
          /\ Len(objs[i].path) = objs[i].distance + 1
          /\ IsChainFrom(graph, objs[i].path, s, objs[i].key)

\* C4 as claimed: in particular every u with an edge (u -> v) is in the
\* impacted set of analyze_impact(v).
C4_ImpactIsReverseReachability ==
  Analyzed =>
    /\ ImpactExact
    /\ last.max_depth >= 1 =>
         \A tr \in DOMAIN graph.edge_metadata : tr[2] = last.node_key => tr[1] \in ImpactedKeys

\* C4 as amended: every u # v with an edge (u -> v) is in the impacted set of
\* analyze_impact(v) when max_depth >= 1.
C4_ImpactOfOtherNodes ==
  Analyzed =>
    /\ ImpactExact
    /\ last.max_depth >= 1 =>
         \A tr \in DOMAIN graph.edge_metadata :
           (tr[2] = last.node_key /\ tr[1] # last.node_key) => tr[1] \in ImpactedKeys

C4_Witness ==
  /\ Analyzed
  /\ last.max_depth = 1
  /\ Len(impact.impacted_objects) = 1
  /\ Within(graph, "upstream", EdgeType, {last.node_key}, 2) = DOMAIN graph.nodes
  /\ Cardinality(DOMAIN graph.nodes) = 3
  /\ Within(graph, "downstream", EdgeType, {last.node_key}, 2) = {last.node_key}

\* C30: traverse_dependencies comes to an end on graphs with cycles,
\* self-loops and parallel edges of different kinds, for every direction and
\* depth, and dequeues each node at most once.
C30_EachNodeExpandedOnce ==
  last.op = "traverse" =>
    /\ \A i \in 1..Len(expanded) : \A j \in 1..Len(expanded) :
         expanded[i] = expanded[j] => i = j
    /\ ExpandedSet \subseteq DOMAIN graph.nodes
    /\ Len(expanded) <= Cardinality(DOMAIN graph.nodes)
    /\ ExpandedSet \subseteq DOMAIN subgraph.nodes

C30_Witness ==
  /\ last.op = "traverse"
  /\ last.direction = "both"
  /\ ~last.depth.some
  /\ Len(expanded) = 2
  /\ \E tr \in DOMAIN graph.edge_metadata : tr[1] = tr[2]
  /\ \E tr \in DOMAIN graph.edge_metadata : tr[1] # tr[2]

\* C11: traverse_dependencies from a key that is not a node of the graph
\* returns a graph with no nodes and no edges, whatever the direction, kind
\* filter and depth, and leaves the graph it was given unchanged.
C11_MissingStartIsEmpty ==
  [][(last'.op = "traverse" /\ last'.start \notin DOMAIN graph.nodes) =>
       /\ subgraph' = NewGraph
       /\ DOMAIN subgraph'.nodes = {}
       /\ edges(subgraph') = <<>>
       /\ graph' = graph]_vars

C11_Witness ==
  /\ last.op = "traverse"
  /\ last.start \notin DOMAIN graph.nodes
  /\ DOMAIN graph.edge_metadata # {}
  /\ last.edge_types.some
  /\ last.depth.some
  /\ DOMAIN subgraph.nodes = {}

\* C12: analyze_impact of a key that is not a node raises an error that names
\* the key and returns no result; a key that is a node with no dependents
\* returns an empty impacted list without error.
C12_MissingNodeRaises ==
  last.op = "analyze_impact" =>
    /\ last.node_key \notin DOMAIN graph.nodes =>
         /\ impact.error
         /\ impact.names = last.node_key
         /\ DOMAIN impact = {"error", "names"}
    /\ (/\ last.node_key \in DOMAIN graph.nodes
        /\ \A tr \in DOMAIN graph.edge_metadata :
             tr[2] = last.node_key => tr[1] = last.node_key) =>
         /\ ~impact.error
         /\ impact.source = last.node_key
         /\ impact.impacted_objects = <<>>

C12_Witness ==
  /\ last.op = "analyze_impact"
  /\ last.node_key \notin DOMAIN graph.nodes
  /\ DOMAIN graph.edge_metadata # {}
  /\ last.max_depth >= 1
  /\ impact.error

\* C14: in an analyze_impact result, max_distance is the largest distance
\* and average_distance is the arithmetic mean of the distances of the
\* objects in impacted_objects, the start node not being counted.
RECURSIVE SumDistances(_, _)
SumDistances(objs, i) ==
  IF i > Len(objs) THEN 0 ELSE objs[i].distance + SumDistances(objs, i + 1)

C14_MetadataOverImpacted ==
  Analyzed =>
    LET objs == impact.impacted_objects
        n == Len(objs)
    IN n >= 1 =>
         /\ \E i \in 1..n : objs[i].distance = impact.metadata.max_distance
         /\ \A i \in 1..n : objs[i].distance <= impact.metadata.max_distance
         /\ impact.metadata.average_num * n
              = SumDistances(objs, 1) * impact.metadata.average_den

(***************************************************************************)
(* The impact analyzer on finished graphs: dependency chains long enough   *)
(* for every severity, and every directed graph on three nodes.            *)
(***************************************************************************)
ChainKeys == <<"n1", "n2", "n3", "n4", "n5", "n6">>

CycleKeys == {"n1", "n2", "n3"}

RECURSIVE GraphOfEdges(_, _, _)
GraphOfEdges(g, es, i) ==
  IF i > Len(es) THEN g
  ELSE GraphOfEdges(add_edge(g, Edge(es[i][1], es[i][2], "DERIVES_FROM", EmptyDict)),
                    es, i + 1)

\* n_k -> ... -> n2 -> n1
ChainGraph(k) ==
  GraphOfEdges(add_node(NewGraph, Node(ChainKeys[1], "DATASET", EmptyDict)),
               [i \in 1..(k - 1) |-> <<ChainKeys[i + 1], ChainKeys[i]>>], 1)

AnalyzerGraphs ==
  {ChainGraph(k) : k \in 1..Len(ChainKeys)}
    \cup {GraphOfEdges(NewGraph, SetToSeq(E), 1) : E \in SUBSET (CycleKeys \X CycleKeys)}

InitAnalyzer ==
  /\ graph \in AnalyzerGraphs
  /\ prev = NewGraph
  /\ last = NoOp
  /\ restored = NewGraph
  /\ subgraph = NewGraph
  /\ expanded = <<>>
  /\ impact = NoOp
  /\ HistoryInit
  /\ AnalysesInit

AnalyzeGraph ==
  \E i \in 1..Len(ChainKeys), max_depth \in 0..Len(ChainKeys) :
    /\ Built
    /\ impact' = analyze_impact(graph, ChainKeys[i], max_depth)
    /\ last' = [op |-> "analyze_impact", node_key |-> ChainKeys[i], max_depth |-> max_depth]
    /\ UNCHANGED <<graph, prev, restored, subgraph, expanded>>
    /\ UNCHANGED <<hvars, xvars>>

IdentifyCycles ==
  /\ Built
  /\ cycles' = identify_circular_dependencies(graph)
  /\ last' = [op |-> "identify_circular_dependencies"]
  /\ UNCHANGED <<graph, prev, restored, subgraph, expanded, impact>>
  /\ UNCHANGED <<hvars, loaded, cvars, yvars>>

NextAnalyzer == AnalyzeGraph \/ IdentifyCycles

SpecAnalyzer == InitAnalyzer /\ [][NextAnalyzer]_vars

\* C13: the severity of an impacted object depends on its distance alone:
\* critical up to 1, high at 2, medium at 3 and 4, low from 5 on; an object
\* nearer than another never has the looser severity of the two.
SeverityRank(severity) ==
  CASE severity = "critical" -> 0
    [] severity = "high" -> 1
    [] severity = "medium" -> 2
    [] severity = "low" -> 3

C13_SeverityByDistance ==
  Analyzed =>
    LET objs == impact.impacted_objects IN
    /\ \A i \in 1..Len(objs) :
         /\ objs[i].distance <= 1 <=> objs[i].severity = "critical"
         /\ objs[i].distance = 2 <=> objs[i].severity = "high"
         /\ objs[i].distance \in {3, 4} <=> objs[i].severity = "medium"
         /\ objs[i].distance >= 5 <=> objs[i].severity = "low"
    /\ \A i \in 1..Len(objs) : \A j \in 1..Len(objs) :
         objs[i].distance < objs[j].distance =>
           SeverityRank(objs[i].severity) <= SeverityRank(objs[j].severity)

C13_Witness ==
  /\ Analyzed
  /\ Len(impact.impacted_objects) = 5
  /\ \A d \in 1..5 : impact.impacted_objects[d].distance = d
  /\ impact.impacted_objects[4].severity = "medium"
  /\ impact.impacted_objects[5].severity = "low"

\* C15: identify_circular_dependencies returns an empty list exactly when
\* the graph has no directed cycle; every list it returns is a simple cycle
\* of the graph; the graph whose only edges are A -> B, B -> C, C -> A
\* yields exactly one cycle, made of A, B and C.
EdgePairs(g) == {<<tr[1], tr[2]>> : tr \in DOMAIN g.edge_metadata}

HasDirectedCycle(g) ==
  \E v \in DOMAIN g.nodes :
    v \in Within(g, "downstream", EdgeType, Hop(g, "downstream", EdgeType, {v}),
                 Cardinality(DOMAIN g.nodes))

IsSimpleCycleOf(g, c) ==
  /\ Len(c) >= 1
  /\ \A i \in 1..Len(c) : \A j \in 1..Len(c) : c[i] = c[j] => i = j
  /\ \A i \in 1..Len(c) : <<c[i], c[(i % Len(c)) + 1]>> \in EdgePairs(g)

IsTriangle(g) ==
  \E A \in DOMAIN g.nodes, B \in DOMAIN g.nodes, C \in DOMAIN g.nodes :
    /\ Cardinality({A, B, C}) = 3
    /\ EdgePairs(g) = {<<A, B>>, <<B, C>>, <<C, A>>}

C15_CyclesFound ==
  last.op = "identify_circular_dependencies" =>
    /\ cycles = <<>> <=> ~HasDirectedCycle(graph)
    /\ \A i \in 1..Len(cycles) : IsSimpleCycleOf(graph, cycles[i])
    /\ IsTriangle(graph) =>
         /\ Len(cycles) = 1
         /\ {cycles[1][i] : i \in 1..Len(cycles[1])} = DOMAIN graph.nodes
         /\ Len(cycles[1]) = 3

C15_Witness ==
  /\ last.op = "identify_circular_dependencies"
  /\ IsTriangle(graph)
  /\ Len(cycles) = 1
  /\ Len(cycles[1]) = 3

(***************************************************************************)
(* The column lineage extractor on statements with one table in FROM and   *)
(* up to two select-list expressions.                                      *)
(***************************************************************************)
TableNames == {"customers", "orders"}

TableAliases == {"", "t"}

\* the FROM clause
FromTables == {<<[name |-> n, alias |-> a]>> : n \in TableNames, a \in TableAliases}

\* select-list expressions: id, t.id, customers.id, the first two also with
\* AS x, a literal and a star
ColumnQualifiers == {"", "t", "customers"}

SelectExpressions ==
  {[class |-> "Column", table |-> q, name |-> "id", alias |-> ""] : q \in ColumnQualifiers}
    \cup {[class |-> "Alias", table |-> q, name |-> "id", alias |-> "x"] : q \in {"", "t"}}
    \cup {[class |-> "Literal", table |-> "", name |-> "", alias |-> ""],
          [class |-> "Star", table |-> "", name |-> "", alias |-> ""]}

SelectLists ==
  {<<e>> : e \in SelectExpressions} \cup (SelectExpressions \X SelectExpressions)

\* CREATE TABLE tgt AS SELECT ..., INSERT INTO tgt [(c1)] SELECT ..., SELECT ...
Statements ==
  {[class |-> c, this |-> [name |-> IF c = "Select" THEN "" ELSE "tgt"],
    expressions |-> es, tables |-> ts, columns |-> cols, set |-> <<>>, whens |-> <<>>] :
     c \in {"Create", "Insert", "Select"}, es \in SelectLists, ts \in FromTables,
     cols \in {<<>>, <<"c1">>}}

\* what cached_sql_parse returns for text that is not SQL
ParseFailure ==
  [class |-> "None", this |-> [name |-> ""], expressions |-> <<>>, tables |-> <<>>,
   columns |-> <<>>, set |-> <<>>, whens |-> <<>>]

\* SET id = customers.id, SET id = id, SET id = 0, one or two of them
Assignments ==
  {[class |-> "EQ", left |-> [class |-> "Column", table |-> "", name |-> "id", alias |-> ""],
    right |-> r] :
     r \in {[class |-> "Column", table |-> "customers", name |-> "id", alias |-> ""],
            [class |-> "Column", table |-> "", name |-> "id", alias |-> ""],
            [class |-> "Literal", table |-> "", name |-> "", alias |-> ""]}}

SetLists == {<<a>> : a \in Assignments} \cup (Assignments \X Assignments)

\* UPDATE tgt SET ...
UpdateStatements ==
  {[class |-> "Update", this |-> [name |-> "tgt"], expressions |-> <<>>, tables |-> <<>>,
    columns |-> <<>>, set |-> sl, whens |-> <<>>] : sl \in SetLists}

\* MERGE INTO tgt USING customers ON ... WHEN MATCHED THEN UPDATE SET ...
\* [WHEN NOT MATCHED THEN INSERT ...], each WHEN clause as the extractor
\* reads it: the list under "updates"
MergeStatements ==
  {[class |-> "Merge", this |-> [name |-> "tgt"], expressions |-> <<>>, tables |-> <<>>,
    columns |-> <<>>, set |-> <<>>, whens |-> ws] :
     ws \in {<<[updates |-> <<[class |-> "Update", set |-> sl]>>]>> : sl \in SetLists}
            \cup {<<[updates |-> <<[class |-> "Update", set |-> sl]>>], [updates |-> <<>>]>> :
                    sl \in {<<a>> : a \in Assignments}}}

\* DELETE FROM tgt: a statement of no supported kind
OtherStatements ==
  {[class |-> "Delete", this |-> [name |-> "tgt"], expressions |-> <<>>, tables |-> <<>>,
    columns |-> <<>>, set |-> <<>>, whens |-> <<>>]}

\* the calls made: INSERT alone has a column list, SELECT alone uses target_table
ExtractInputs ==
  {in \in (Statements \cup UpdateStatements \cup MergeStatements \cup OtherStatements
             \cup {ParseFailure})
          \X {None, Some("tgt"), Some("123-invalid-name")} :
     /\ in[1].columns # <<>> => in[1].class = "Insert"
     /\ in[2] = Some("tgt") => in[1].class = "Select"
     /\ in[2] = Some("123-invalid-name") =>
          in[1].class \in {"Select", "None"} /\ Len(in[1].expressions) <= 1}

\* ColumnLineageExtractor()
NewExtractor ==
  /\ stmt # NoOp
  /\ table_aliases' = EmptyDict
  /\ stmt' = NoOp
  /\ lineage' = ColumnLineageGraph
  /\ UNCHANGED <<gvars, hvars, cycles, loaded, yvars>>

\* extractor.extract_column_lineage(sql, target_table)
ExtractColumnLineage ==
  \E in \in ExtractInputs :
    LET out == extract_column_lineage(table_aliases, in[1], in[2]) IN
    /\ table_aliases' = out.aliases
    /\ lineage' = out.graph
    /\ stmt' = [op |-> "extract_column_lineage", parsed |-> in[1], target_table |-> in[2]]
    /\ UNCHANGED <<gvars, hvars, cycles, loaded, yvars>>

NextColumns == NewExtractor \/ ExtractColumnLineage

SpecColumns == InitGraph /\ [][NextColumns]_vars

\* the select-list expressions that get a transformation, in order
Extracted == stmt.op = "extract_column_lineage" /\ stmt.parsed.class # "None"

Processed == SelectSeq(stmt.parsed.expressions, LAMBDA e : e.class # "Star")

\* C19: every bare column reference in the select-list, qualified by a table
\* name or alias or not, yields a transformation of kind direct with exactly
\* one source column and confidence 1.0.
C19_BareColumnIsDirect ==
  Extracted =>
    /\ Len(lineage.transformations) = Len(Processed)
    /\ \A k \in 1..Len(Processed) :
         Processed[k].class = "Column" =>
           /\ lineage.transformations[k].transformation_type = "direct"
           /\ Len(lineage.transformations[k].source_columns) = 1
           /\ lineage.transformations[k].confidence = 10

\* C20: in a CREATE ... AS SELECT, an INSERT ... SELECT and a bare SELECT, a
\* column referenced through the alias that FROM declares for a table and the
\* same column referenced through the table's name are resolved to the same
\* source table.
C20_AliasAndNameAgree ==
  Extracted =>
    \A i \in 1..Len(stmt.parsed.tables) :
      \A k1 \in 1..Len(Processed) : \A k2 \in 1..Len(Processed) :
        (/\ stmt.parsed.tables[i].alias # ""
         /\ Processed[k1].table = stmt.parsed.tables[i].alias
         /\ Processed[k2].table = stmt.parsed.tables[i].name
         /\ Processed[k1].name = Processed[k2].name) =>
          /\ Len(lineage.transformations[k1].source_columns) = 1
          /\ Len(lineage.transformations[k2].source_columns) = 1
          /\ lineage.transformations[k1].source_columns[1].table
               = lineage.transformations[k2].source_columns[1].table

\* C21: for a top-level UPDATE statement and for every update clause of a
\* MERGE statement there is one transformation per SET col = expr, whose
\* target is the assigned column of the statement's target table and whose
\* sources are the columns found in expr.
RECURSIVE AssignmentsOfWhens(_, _)
AssignmentsOfWhens(whens, i) ==
  IF i > Len(whens) THEN <<>>
  ELSE (IF whens[i].updates = <<>> THEN <<>> ELSE whens[i].updates[1].set)
         \o AssignmentsOfWhens(whens, i + 1)

Assigned ==
  IF stmt.parsed.class = "Update" THEN stmt.parsed.set
  ELSE AssignmentsOfWhens(stmt.parsed.whens, 1)

C21_OneTransformationPerAssignment ==
  (stmt.op = "extract_column_lineage" /\ stmt.parsed.class \in {"Update", "Merge"}) =>
    /\ Len(lineage.transformations) = Len(Assigned)
    /\ \A k \in 1..Len(Assigned) :
         /\ lineage.transformations[k].target_column
              = [table |-> stmt.parsed.this.name, column |-> Assigned[k].left.name]
         /\ IF Assigned[k].right.class = "Column"
            THEN /\ Len(lineage.transformations[k].source_columns) = 1
                 /\ lineage.transformations[k].source_columns[1].column
                      = Assigned[k].right.name
            ELSE lineage.transformations[k].source_columns = <<>>

\* C22: for input that is empty or does not parse, that comes with an invalid
\* target table name, or that is not a statement of a supported kind,
\* extract_column_lineage returns no transformations and at least one issue.
C22_BadInputGivesIssue ==
  (/\ stmt.op = "extract_column_lineage"
   /\ \/ stmt.parsed.class = "None"
      \/ stmt.target_table = Some("123-invalid-name")
      \/ stmt.parsed.class \notin {"Create", "Insert", "Select", "Update", "Merge"}) =>
    /\ lineage.transformations = <<>>
    /\ lineage.issues # <<>>

\* C29: the result of extract_column_lineage depends only on its arguments:
\* after any earlier calls on the same extractor it returns the
\* transformations and issues that the same call returns on a new extractor.
C29_IndependentOfEarlierCalls ==
  stmt.op = "extract_column_lineage" =>
    lineage = extract_column_lineage(EmptyDict, stmt.parsed, stmt.target_table).graph

(***************************************************************************)
(* lineage/cross_db.py: CrossDatabaseLineageBuilder.build merges the nodes *)
(* and edges of several graphs into one combined graph with add_node and   *)
(* add_edge.  The same operations are applied in two orders.               *)
(***************************************************************************)
MaxMergeOps == 3

\* the add_node and add_edge calls of a merge, each with its argument
MergeOps ==
  {[op |-> "add_node", node |-> Node(k, t, EmptyDict),
    edge |-> Edge("", "", "DERIVES_FROM", EmptyDict)] : k \in GraphKeys, t \in NodeType}
    \cup {[op |-> "add_edge", node |-> Node("", "DATASET", EmptyDict),
            edge |-> Edge(s, d, "DERIVES_FROM", EmptyDict)] : s \in GraphKeys, d \in GraphKeys}

\* combined_graph.add_node(node) / combined_graph.add_edge(edge)
ApplyMergeOp(g, o) ==
  IF o.op = "add_node" THEN add_node(g, o.node) ELSE add_edge(g, o.edge)

\* build starts on an empty combined graph, once for each order
Build ==
  /\ todo = <<{}, {}>>
  /\ \E ops \in SUBSET MergeOps :
       /\ ops # {}
       /\ Cardinality(ops) <= MaxMergeOps
       /\ todo' = <<ops, ops>>
  /\ combined' = <<NewGraph, NewGraph>>
  /\ UNCHANGED <<storage, today, cleaned>>
  /\ UNCHANGED <<gvars, hvars, cycles, loaded, cvars>>

\* the next call of the first order
MergeFirst ==
  \E o \in todo[1] :
    /\ todo' = <<todo[1] \ {o}, todo[2]>>
    /\ combined' = <<ApplyMergeOp(combined[1], o), combined[2]>>
    /\ UNCHANGED <<storage, today, cleaned>>
    /\ UNCHANGED <<gvars, hvars, cycles, loaded, cvars>>

\* the next call of the second order
MergeSecond ==
  \E o \in todo[2] :
    /\ todo' = <<todo[1], todo[2] \ {o}>>
    /\ combined' = <<combined[1], ApplyMergeOp(combined[2], o)>>
    /\ UNCHANGED <<storage, today, cleaned>>
    /\ UNCHANGED <<gvars, hvars, cycles, loaded, cvars>>

NextMerge == Build \/ MergeFirst \/ MergeSecond

SpecMerge == InitGraph /\ [][NextMerge]_vars

\* C28: merging is order-independent: for any two orders of applying the
\* same collection of add_node and add_edge operations to an empty graph, the
\* resulting graphs have the same node keys, the same kind for every node,
\* and the same (source, target, kind) edge triples.
C28_MergeOrderIndependent ==
  todo = <<{}, {}>> =>
    /\ DOMAIN combined[1].nodes = DOMAIN combined[2].nodes
    /\ \A k \in DOMAIN combined[1].nodes \cap DOMAIN combined[2].nodes :
         combined[1].nodes[k].node_type = combined[2].nodes[k].node_type
    /\ DOMAIN combined[1].edge_metadata = DOMAIN combined[2].edge_metadata

(***************************************************************************)
(* lineage/utils.py: clean_old_snapshots sweeps the graph_*.json files of  *)
(* a storage directory.  Modification times and the clock count days.      *)
(***************************************************************************)
MaxDays == 2

GraphFiles == {"graph_1.json", "graph_2.json", "graph_3.json"}

MaxKeepCount == 2

MaxKeepDays == 1

\* graph_files after list(glob(...)) and sort(key=st_mtime): glob lists the
\* files in an order of the file system's choosing and the sort is stable, so
\* files of equal modification time come in any order
SortedByMtime(dir) ==
  {order \in [1..Cardinality(DOMAIN dir) -> DOMAIN dir] :
     /\ \A i, k \in DOMAIN order : i # k => order[i] # order[k]
     /\ \A i, k \in DOMAIN order : i < k => dir[order[i]] <= dir[order[k]]}

\* graph_files[:-keep_count]; in Python -0 is 0 and seq[:0] is empty
AllButLast(graph_files, keep_count) ==
  IF keep_count = 0 THEN <<>>
  ELSE SubSeq(graph_files, 1, Len(graph_files) - keep_count)

\* clean_old_snapshots on directory dir on day day; graph_files is the sorted
\* listing and failing the files whose stat or unlink raises OSError
clean_old_snapshots(dir, day, keep_count, keep_days, graph_files, failing) ==
  LET cutoff_date == day - keep_days
      candidates == AllButLast(graph_files, keep_count)
      removed == {candidates[i] : i \in {k \in 1..Len(candidates) :
                                           /\ candidates[k] \notin failing
                                           /\ dir[candidates[k]] < cutoff_date}}
  IN IF Len(graph_files) <= keep_count THEN dir
     ELSE [f \in DOMAIN dir \ removed |-> dir[f]]

\* graph_file.write_text("{}")
WriteGraphFile ==
  \E f \in GraphFiles :
    /\ storage' = Put(storage, f, today)
    /\ cleaned' = NoOp
    /\ UNCHANGED <<today, todo, combined>>
    /\ UNCHANGED <<gvars, hvars, cycles, loaded, cvars>>

\* a day goes by
DayPasses ==
  /\ today < MaxDays
  /\ today' = today + 1
  /\ cleaned' = NoOp
  /\ UNCHANGED <<storage, todo, combined>>
  /\ UNCHANGED <<gvars, hvars, cycles, loaded, cvars>>

\* clean_old_snapshots(storage_path, keep_count, keep_days)
CleanOldSnapshots ==
  \E keep_count \in 0..MaxKeepCount, keep_days \in 0..MaxKeepDays,
     graph_files \in SortedByMtime(storage), failing \in SUBSET GraphFiles :
    /\ storage' = clean_old_snapshots(storage, today, keep_count, keep_days,
                                      graph_files, failing)
    /\ cleaned' = [op |-> "clean_old_snapshots", keep_count |-> keep_count,
                   keep_days |-> keep_days, failing |-> failing,
                   before |-> storage, after |-> storage']
    /\ UNCHANGED <<today, todo, combined>>
    /\ UNCHANGED <<gvars, hvars, cycles, loaded, cvars>>

NextClean == WriteGraphFile \/ DayPasses \/ CleanOldSnapshots

SpecClean == InitGraph /\ [][NextClean]_vars

\* C23: after clean_old_snapshots(storage, keep_count, keep_days) returns, at
\* most keep_count graph_*.json files remain in storage, for any number and
\* any ages of files present before the call; when no more than keep_count
\* files are present none is removed.
C23_AtMostKeepCountRemain ==
  cleaned.op = "clean_old_snapshots" =>
    /\ Cardinality(DOMAIN cleaned.after) <= cleaned.keep_count
    /\ Cardinality(DOMAIN cleaned.before) <= cleaned.keep_count =>
         cleaned.after = cleaned.before

(***************************************************************************)
(* lineage/history.py: capture_snapshot, one file operation at a time.     *)
(* Path.write_text opens the file, which truncates it, and then writes;    *)
(* either step can raise OSError.                                          *)
(***************************************************************************)
\* the payload file of a snapshot while it is written and once it is written
Payload(snapshot, complete) ==
  [complete |-> complete, captured_at |-> snapshot.timestamp, tag |-> snapshot.tag]

\* capture_snapshot is called; what the caller held from an earlier
\* load_snapshot call is no longer looked at
CaptureStart(m) ==
  /\ pc[m] = "idle"
  /\ captures < MaxCaptures
  /\ captures' = captures + 1
  /\ pc' = [pc EXCEPT ![m] = "build"]
  /\ \E tag \in {None} \cup {Some(t) : t \in Tags} :
       loc' = [loc EXCEPT ![m] = [IdleLocals EXCEPT !.result = "running",
                                                    !.before = read_index(index),
                                                    !.tag = tag]]
  /\ loaded' = NoOp
  /\ UNCHANGED <<index, files, now>>
  /\ UNCHANGED <<gvars, cycles, cvars, yvars>>

\* validate_path rejects the catalog path, or LineageBuilder.build raises
BuildFails(m) ==
  /\ pc[m] = "build"
  /\ Raise(m)
  /\ UNCHANGED <<index, files, now, captures>>
  /\ UNCHANGED <<gvars, xvars>>

\* the graph is built, the id drawn and the clock read
BuildDone(m) ==
  /\ pc[m] = "build"
  /\ \E id \in SnapshotIds, t \in {now, now + 1} :
       /\ now' = t
       /\ loc' = [loc EXCEPT ![m].snapshot = LineageSnapshot(id, t, loc[m].tag)]
  /\ pc' = [pc EXCEPT ![m] = "save"]
  /\ UNCHANGED <<index, files, captures>>
  /\ UNCHANGED <<gvars, xvars>>

\* _save_snapshot: write_text opens the payload file
SaveOpen(m) ==
  /\ pc[m] = "save"
  /\ files' = Put(files, loc[m].snapshot.storage_file, Payload(loc[m].snapshot, FALSE))
  /\ pc' = [pc EXCEPT ![m] = "saving"]
  /\ UNCHANGED <<index, loc, now, captures>>
  /\ UNCHANGED <<gvars, xvars>>

SaveOpenFails(m) ==
  /\ pc[m] = "save"
  /\ Raise(m)
  /\ UNCHANGED <<index, files, now, captures>>
  /\ UNCHANGED <<gvars, xvars>>

\* _save_snapshot: the payload is written to the end
SaveDone(m) ==
  /\ pc[m] = "saving"
  /\ files' = Put(files, loc[m].snapshot.storage_file, Payload(loc[m].snapshot, TRUE))
  /\ pc' = [pc EXCEPT ![m] = "append"]
  /\ UNCHANGED <<index, loc, now, captures>>
  /\ UNCHANGED <<gvars, xvars>>

SaveFails(m) ==
  /\ pc[m] = "saving"
  /\ Raise(m)
  /\ UNCHANGED <<index, files, now, captures>>
  /\ UNCHANGED <<gvars, xvars>>

\* _append_snapshot: snapshots = self._read_index(); snapshots.append(snapshot)
AppendRead(m) ==
  /\ pc[m] = "append"
  /\ loc' = [loc EXCEPT ![m].snapshots = Append(read_index(index), loc[m].snapshot)]
  /\ pc' = [pc EXCEPT ![m] = "append_write"]
  /\ UNCHANGED <<index, files, now, captures>>
  /\ UNCHANGED <<gvars, xvars>>

AppendReadOSError(m) ==
  /\ pc[m] = "append"
  /\ loc' = [loc EXCEPT ![m].snapshots = Append(read_index_oserror, loc[m].snapshot)]
  /\ pc' = [pc EXCEPT ![m] = "append_write"]
  /\ UNCHANGED <<index, files, now, captures>>
  /\ UNCHANGED <<gvars, xvars>>

\* _append_snapshot: _write_index opens the index file
AppendWriteOpen(m) ==
  /\ pc[m] = "append_write"
  /\ index' = PartialIndex
  /\ pc' = [pc EXCEPT ![m] = "append_writing"]
  /\ UNCHANGED <<files, loc, now, captures>>
  /\ UNCHANGED <<gvars, xvars>>

AppendWriteOpenFails(m) ==
  /\ pc[m] = "append_write"
  /\ Raise(m)
  /\ UNCHANGED <<index, files, now, captures>>
  /\ UNCHANGED <<gvars, xvars>>

\* _append_snapshot: the index is written to the end
AppendWriteDone(m) ==
  /\ pc[m] = "append_writing"
  /\ index' = IndexOf(loc[m].snapshots)
  /\ pc' = [pc EXCEPT ![m] = "retain"]
  /\ UNCHANGED <<files, loc, now, captures>>
  /\ UNCHANGED <<gvars, xvars>>

AppendWriteFails(m) ==
  /\ pc[m] = "append_writing"
  /\ Raise(m)
  /\ UNCHANGED <<index, files, now, captures>>
  /\ UNCHANGED <<gvars, xvars>>

\* _enforce_retention from the snapshots read: return when there is no
\* surplus, else start on snapshots[:surplus]
RetainFrom(m, snapshots) ==
  IF Len(snapshots) <= MAX_SNAPSHOTS
  THEN /\ pc' = [pc EXCEPT ![m] = "idle"]
       /\ loc' = [loc EXCEPT ![m].snapshots = snapshots, ![m].i = 0,
                             ![m].result = "returned"]
  ELSE /\ pc' = [pc EXCEPT ![m] = "unlink"]
       /\ loc' = [loc EXCEPT ![m].snapshots = snapshots, ![m].i = 1]

RetainRead(m) ==
  /\ pc[m] = "retain"
  /\ RetainFrom(m, read_index(index))
  /\ UNCHANGED <<index, files, now, captures>>
  /\ UNCHANGED <<gvars, xvars>>

RetainReadOSError(m) ==
  /\ pc[m] = "retain"
  /\ RetainFrom(m, read_index_oserror)
  /\ UNCHANGED <<index, files, now, captures>>
  /\ UNCHANGED <<gvars, xvars>>

\* _enforce_retention: unlink(missing_ok=True) of the next surplus payload
Unlink(m) ==
  /\ pc[m] = "unlink"
  /\ loc[m].i <= Surplus(loc[m].snapshots)
  /\ files' = [f \in DOMAIN files \ {loc[m].snapshots[loc[m].i].storage_file} |-> files[f]]
  /\ loc' = [loc EXCEPT ![m].i = @ + 1]
  /\ UNCHANGED <<index, pc, now, captures>>
  /\ UNCHANGED <<gvars, xvars>>

\* "except OSError: pass"
UnlinkOSError(m) ==
  /\ pc[m] = "unlink"
  /\ loc[m].i <= Surplus(loc[m].snapshots)
  /\ loc' = [loc EXCEPT ![m].i = @ + 1]
  /\ UNCHANGED <<index, files, pc, now, captures>>
  /\ UNCHANGED <<gvars, xvars>>

\* _enforce_retention: _write_index opens the index file
RetainWriteOpen(m) ==
  /\ pc[m] = "unlink"
  /\ loc[m].i > Surplus(loc[m].snapshots)
  /\ index' = PartialIndex
  /\ pc' = [pc EXCEPT ![m] = "retain_writing"]
  /\ UNCHANGED <<files, loc, now, captures>>
  /\ UNCHANGED <<gvars, xvars>>

RetainWriteOpenFails(m) ==
  /\ pc[m] = "unlink"
  /\ loc[m].i > Surplus(loc[m].snapshots)
  /\ Raise(m)
  /\ UNCHANGED <<index, files, now, captures>>
  /\ UNCHANGED <<gvars, xvars>>

\* _enforce_retention: the index is written to the end, capture_snapshot returns
RetainWriteDone(m) ==
  /\ pc[m] = "retain_writing"
  /\ index' = IndexOf(Kept(loc[m].snapshots))
  /\ pc' = [pc EXCEPT ![m] = "idle"]
  /\ loc' = [loc EXCEPT ![m].result = "returned"]
  /\ UNCHANGED <<files, now, captures>>
  /\ UNCHANGED <<gvars, xvars>>

RetainWriteFails(m) ==
  /\ pc[m] = "retain_writing"
  /\ Raise(m)
  /\ UNCHANGED <<index, files, now, captures>>
  /\ UNCHANGED <<gvars, xvars>>

\* what load_snapshot is called with: an id or a tag
LoadKeys == SnapshotIds \cup Tags

\* load_snapshot is called between two captures
LoadSnapshot(m) ==
  /\ pc[m] = "idle"
  /\ \E x \in LoadKeys :
       loaded' = [op |-> "load_snapshot", x |-> x, oserror |-> FALSE,
                  snapshots |-> read_index(index),
                  result |-> load_snapshot(read_index(index), files, x)]
  /\ UNCHANGED <<hvars, gvars, cycles, cvars, yvars>>

\* load_snapshot when reading the index raises OSError inside _read_index
LoadSnapshotOSError(m) ==
  /\ pc[m] = "idle"
  /\ \E x \in LoadKeys :
       loaded' = [op |-> "load_snapshot", x |-> x, oserror |-> TRUE,
                  snapshots |-> read_index_oserror,
                  result |-> load_snapshot(read_index_oserror, files, x)]
  /\ UNCHANGED <<hvars, gvars, cycles, cvars, yvars>>

NextHistory ==
  \E m \in Managers :
    \/ CaptureStart(m)
    \/ BuildFails(m)
    \/ BuildDone(m)
    \/ SaveOpen(m)
    \/ SaveOpenFails(m)
    \/ SaveDone(m)
    \/ SaveFails(m)
    \/ AppendRead(m)
    \/ AppendReadOSError(m)
    \/ AppendWriteOpen(m)
    \/ AppendWriteOpenFails(m)
    \/ AppendWriteDone(m)
    \/ AppendWriteFails(m)
    \/ RetainRead(m)
    \/ RetainReadOSError(m)
    \/ Unlink(m)
    \/ UnlinkOSError(m)
    \/ RetainWriteOpen(m)
    \/ RetainWriteOpenFails(m)
    \/ RetainWriteDone(m)
    \/ RetainWriteFails(m)

SpecHistory == InitGraph /\ [][NextHistory]_vars

\* captures whose file operations all succeed, and loads between them
NextLoad ==
  \E m \in Managers :
    \/ CaptureStart(m)
    \/ BuildDone(m)
    \/ SaveOpen(m)
    \/ SaveDone(m)
    \/ AppendRead(m)
    \/ AppendWriteOpen(m)
    \/ AppendWriteDone(m)
    \/ RetainRead(m)
    \/ Unlink(m)
    \/ RetainWriteOpen(m)
    \/ RetainWriteDone(m)
    \/ LoadSnapshot(m)
    \/ LoadSnapshotOSError(m)

SpecLoad == InitGraph /\ [][NextLoad]_vars

\* load_snapshot called from another process or thread while a capture may
\* be running: _read_index reads the index file
LoadBegin ==
  /\ loaded.op # "load_snapshot_reading"
  /\ \E x \in SnapshotIds :
       loaded' = [op |-> "load_snapshot_reading", x |-> x, oserror |-> FALSE,
                  snapshots |-> read_index(index),
                  result |-> [outcome |-> "running", names |-> x]]
  /\ UNCHANGED <<hvars, gvars, cycles, cvars, yvars>>

\* load_snapshot looks for the entry it read, tests file_path.exists() and
\* reads the payload file
LoadEnd ==
  /\ loaded.op = "load_snapshot_reading"
  /\ loaded' = [loaded EXCEPT !.op = "load_snapshot",
                              !.result = load_snapshot(loaded.snapshots, files, loaded.x)]
  /\ UNCHANGED <<hvars, gvars, cycles, cvars, yvars>>

\* captures whose file operations all succeed, and a load_snapshot running
\* at the same time
NextPrune ==
  \/ \E m \in Managers :
       \/ CaptureStart(m)
       \/ BuildDone(m)
       \/ SaveOpen(m)
       \/ SaveDone(m)
       \/ AppendRead(m)
       \/ AppendWriteOpen(m)
       \/ AppendWriteDone(m)
       \/ RetainRead(m)
       \/ Unlink(m)
       \/ RetainWriteOpen(m)
       \/ RetainWriteDone(m)
  \/ LoadBegin
  \/ LoadEnd

SpecPrune == InitGraph /\ [][NextPrune]_vars

\* two LineageHistoryManager objects, in two processes or threads, on the
\* same storage directory
Writers == {"m1", "m2"}

MaxWriterCaptures == 2

\* what an earlier capture_snapshot call left in the storage directory
Stored == <<LineageSnapshot("s1", 0, None)>>

InitWriters ==
  /\ graph = NewGraph
  /\ prev = NewGraph
  /\ last = NoOp
  /\ restored = NewGraph
  /\ subgraph = NewGraph
  /\ expanded = <<>>
  /\ impact = NoOp
  /\ index = IndexOf(Stored)
  /\ files = [f \in {Stored[i].storage_file : i \in 1..Len(Stored)} |->
                Payload(Stored[CHOOSE i \in 1..Len(Stored) : Stored[i].storage_file = f], TRUE)]
  /\ pc = [m \in Writers |-> "idle"]
  /\ loc = [m \in Writers |-> IdleLocals]
  /\ now = 0
  /\ captures = 0
  /\ AnalysesInit

\* capture_snapshot calls of the two managers, called without a tag and
\* interleaved at their file operations, all of which succeed
NextWriters ==
  \E m \in Writers :
    \/ captures < MaxWriterCaptures /\ CaptureStart(m) /\ loc'[m].tag = None
    \/ BuildDone(m)
    \/ SaveOpen(m)
    \/ SaveDone(m)
    \/ AppendRead(m)
    \/ AppendWriteOpen(m)
    \/ AppendWriteDone(m)
    \/ RetainRead(m)
    \/ Unlink(m)
    \/ RetainWriteOpen(m)
    \/ RetainWriteDone(m)

SpecWriters == InitWriters /\ [][NextWriters]_vars

(***************************************************************************)
(* Claims about the history manager.                                       *)
(***************************************************************************)
\* what a reader of the storage directory finds listed
Listed == read_index(index)

\* C5: if capture_snapshot fails at any step, the index afterwards lists
\* exactly the snapshots it listed before the call, and at no point can a
\* reader find an index entry whose payload file is missing or only partly
\* written, or read a partly written index.
C5_FailedCaptureInvisible ==
  /\ \A m \in Managers : loc[m].result = "failed" => Listed = loc[m].before
  /\ index.ok
  /\ \A i \in 1..Len(index.entries) :
       /\ index.entries[i].storage_file \in DOMAIN files
       /\ files[index.entries[i].storage_file].complete

\* C6: after every capture_snapshot call returns, the index holds at most
\* MAX_SNAPSHOTS snapshots, the snapshot just captured is among them, and the
\* snapshots removed by retention are those with the earliest timestamps among
\* all snapshots stored at that moment.
C6_RetentionKeepsNewest ==
  \A m \in Managers :
    loc[m].result = "returned" =>
      /\ Len(Listed) <= MAX_SNAPSHOTS
      /\ \E i \in 1..Len(Listed) : Listed[i] = loc[m].snapshot
      /\ \A i \in 1..Len(Pruned(loc[m].snapshots)) :
           \A j \in 1..Len(Kept(loc[m].snapshots)) :
             Pruned(loc[m].snapshots)[i].timestamp <= Kept(loc[m].snapshots)[j].timestamp

\* C16: any two capture_snapshot calls on the same storage produce snapshots
\* with different snapshot_id values and different payload files, and a later
\* capture never overwrites the payload of an earlier snapshot that is still
\* listed.
C16_CapturesDistinct ==
  /\ \A i \in 1..Len(Listed) : \A j \in 1..Len(Listed) :
       i # j => /\ Listed[i].snapshot_id # Listed[j].snapshot_id
                /\ Listed[i].storage_file # Listed[j].storage_file
  /\ \A i \in 1..Len(Listed) :
       Listed[i].storage_file \in DOMAIN files =>
         /\ files[Listed[i].storage_file].captured_at = Listed[i].timestamp
         /\ files[Listed[i].storage_file].tag = Listed[i].tag

\* C17: load_snapshot(x) returns the payload that capture_snapshot wrote for
\* the stored snapshot whose snapshot_id or whose tag equals x, and raises an
\* error naming x when no stored snapshot has that id or tag.
C17_LoadByIdOrTag ==
  (loaded.op = "load_snapshot" /\ ~loaded.oserror) =>
    LET matches == {i \in 1..Len(loaded.snapshots) :
                      \/ loaded.snapshots[i].snapshot_id = loaded.x
                      \/ loaded.snapshots[i].tag = Some(loaded.x)}
    IN IF matches = {}
       THEN loaded.result.outcome = "KeyError" /\ loaded.result.names = loaded.x
       ELSE /\ loaded.result.outcome = "returned"
            /\ \E i \in matches :
                 loaded.result.payload = Payload(loaded.snapshots[i], TRUE)

\* C18: an I/O failure met while reading the index or deleting a payload
\* during capture_snapshot or retention pruning is reported to the caller as
\* an error: the call does not go on as if the history were empty or the
\* payload deleted.
C18_IOFailureReported ==
  [][\A m \in Managers :
       (AppendReadOSError(m) \/ RetainReadOSError(m) \/ UnlinkOSError(m)) =>
         loc'[m].result = "failed"]_vars

\* the snapshots whose payload deletion _enforce_retention has gone past in
\* the capture_snapshot call of m, running or last finished
PrunedBy(m) ==
  IF pc[m] \in {"unlink", "retain_writing"} \/ loc[m].result \in {"returned", "failed"}
  THEN {loc[m].snapshots[j] : j \in {k \in 1..Surplus(loc[m].snapshots) : k < loc[m].i}}
  ELSE {}

\* C26: in every state reached by capture_snapshot and retention pruning,
\* including states where a payload deletion or the index rewrite fails or
\* the process stops between two steps, every snapshot listed in the index
\* has its payload file on disk, and every pruned snapshot has neither an
\* index entry nor a payload file.
C26_IndexMatchesPayloads ==
  /\ \A i \in 1..Len(Listed) : Listed[i].storage_file \in DOMAIN files
  /\ \A m \in Managers : \A snapshot \in PrunedBy(m) :
       /\ \A i \in 1..Len(Listed) : Listed[i].snapshot_id # snapshot.snapshot_id
       /\ snapshot.storage_file \notin DOMAIN files

\* the snapshots that _enforce_retention is pruning in the running call of m
BeingPruned(m) ==
  IF pc[m] \in {"unlink", "retain_writing"}
  THEN {loc[m].snapshots[j] : j \in 1..Surplus(loc[m].snapshots)}
  ELSE {}

\* C24: under every interleaving of retention pruning with a concurrent
\* load_snapshot of a snapshot being pruned, the load either returns that
\* snapshot's complete payload or reports the snapshot as not found: pruning
\* removes a snapshot's index entry before its payload file, so no reader
\* finds the snapshot in the index while its payload is already gone.
C24_PruningHidesBeforeDeleting ==
  \A m \in Managers : \A snapshot \in BeingPruned(m) :
    /\ (\E i \in 1..Len(Listed) : Listed[i].snapshot_id = snapshot.snapshot_id) =>
         snapshot.storage_file \in DOMAIN files
    /\ (loaded.op = "load_snapshot" /\ loaded.x = snapshot.snapshot_id) =>
         \/ loaded.result.outcome = "KeyError"
         \/ /\ loaded.result.outcome = "returned"
            /\ loaded.result.payload = Payload(snapshot, TRUE)

\* C25: under every interleaving of two capture_snapshot calls on the same
\* storage directory, once both have returned the index lists both new
\* snapshots together with every previously stored snapshot that retention
\* did not remove: no index entry is lost to the read-modify-write of the
\* index file.
C25_NoIndexEntryLost ==
  (\A m \in DOMAIN pc : pc[m] = "idle") =>
    /\ Len(Listed) = IF Len(Stored) + captures <= MAX_SNAPSHOTS
                     THEN Len(Stored) + captures ELSE MAX_SNAPSHOTS
    /\ captures <= MAX_SNAPSHOTS =>
         \A m \in DOMAIN pc :
           loc[m].result = "returned" =>
             \E i \in 1..Len(Listed) : Listed[i] = loc[m].snapshot

====
